---- MODULE Spec2Model ----
(***************************************************************************)
(* MemoryState (noria-server/dataflow/src/state/memory_state.rs): the      *)
(* in-memory store of a materialized view.  It owns an ordered list of     *)
(* per-key-column indices (SingleState), a map from replay tags to index   *)
(* positions, and a running memory estimate.                               *)
(*                                                                         *)
(* SingleState and the row size function live in other files of the        *)
(* crate (state/single_state.rs, state/keyed_state.rs, common); they are   *)
(* modelled here from their documented interface.                          *)
(*                                                                         *)
(* Positions in `state` are 0-based as in the source: At(st, i) is         *)
(* self.state[i].                                                          *)
(***************************************************************************)
EXTENDS Integers, Sequences, FiniteSets, TLC

VARIABLES state, by_tag, mem_size, failed

vars == <<state, by_tag, mem_size, failed>>

(***************************************************************************)
(* Bounds of the model.                                                    *)
(***************************************************************************)
\* scalar values of a column are 1..MaxVal
MaxVal == 2
\* replay tags are 1..MaxTag
MaxTag == 1
\* number of rows (distinct Rc allocations) alive in the indices at a time
MaxRows == 2
\* longest batch handed to process_records
MaxBatch == 2
\* timestamps are 1..MaxTs
MaxTs == 1
\* largest count passed to evict_random_keys
MaxEvict == 2
\* the memory estimate inserts may reach
MaxMem == 6

(***************************************************************************)
(* Program constants.                                                      *)
(***************************************************************************)
\* number of columns of a row of the view (rows of the tests have two)
NumCols == 2
\* keyed_state::VERSIONED_ROW_HEADER_SIZE, the per-version overhead
VERSIONED_ROW_HEADER_SIZE == 1
\* bytes of one scalar as deep_size_of counts them
DataTypeSize == 1

Values == 1..MaxVal
Tags == 1..MaxTag
Timestamps == 1..MaxTs
RowIds == 1..MaxRows
Rows == [1..NumCols -> Values]
\* key-column sets the model registers: each single column
KeyColumns == {<<c>> : c \in 0..(NumCols - 1)}
\* keys of a single-column index
Keys == {<<v>> : v \in Values}
\* Option<Tag> / Option<Vec<Tag>> / Option<usize>
None == [some |-> FALSE]
Some(x) == [some |-> TRUE, v |-> x]
\* Record::Positive(r) / Record::Negative(r)
Positive(r) == [positive |-> TRUE, r |-> r]
Negative(r) == [positive |-> FALSE, r |-> r]
RecordSet == {Positive(r) : r \in Rows} \cup {Negative(r) : r \in Rows}

RECURSIVE SeqsUpTo(_, _)
SeqsUpTo(S, n) ==
    IF n = 0 THEN {<<>>}
    ELSE LET shorter == SeqsUpTo(S, n - 1)
         IN  shorter \cup {Append(s, x) : s \in {t \in shorter : Len(t) = n - 1}, x \in S}

Batches == SeqsUpTo(RecordSet, MaxBatch)

Range(s) == {s[i] : i \in 1..Len(s)}

RECURSIVE SumOver(_, _)
SumOver(S, f) ==
    IF S = {} THEN 0
    ELSE LET x == CHOOSE y \in S : TRUE
         IN  f[x] + SumOver(S \ {x}, f)

(***************************************************************************)
(* Row: Rc<Vec<DataType>>.  An entry of an index is one Rc clone of a row  *)
(* together with its version header: id names the allocation (two entries  *)
(* share storage iff they have the same id), r is the value sequence, ts   *)
(* the timestamp of the version.                                           *)
(***************************************************************************)
Entry(id, r, ts) == [id |-> id, r |-> r, ts |-> ts]

\* SizeOf::deep_size_of of a row
deep_size_of(r) == Len(r) * DataTypeSize

\* the projection of a row on a key-column set
KeyOf(columns, r) == [i \in 1..Len(columns) |-> r[columns[i] + 1]]

(***************************************************************************)
(* SingleState: one index.  map holds the keys that are present, each      *)
(* with its versions in insertion order.  In a partial index a key that is *)
(* absent from map is a hole and a filled key may hold no row; in a fully  *)
(* materialized index a key with no row reads the same as an absent key    *)
(* and is kept absent.                                                     *)
(***************************************************************************)
SingleState_new(columns, partial) ==
    [key |-> columns, partial |-> partial, map |-> [k \in {} |-> <<>>]]

DropKeys(s, ks) ==
    [s EXCEPT !.map = [x \in (DOMAIN s.map) \ ks |-> s.map[x]]]

SetKey(s, k, es) ==
    IF es = <<>> /\ ~s.partial
    THEN DropKeys(s, {k})
    ELSE [s EXCEPT !.map = [x \in (DOMAIN s.map) \cup {k} |->
                               IF x = k THEN es ELSE s.map[x]]]

\* insert_row_with_header(row, header) -> accepted
SingleState_insert_row_with_header(s, e) ==
    LET k == KeyOf(s.key, e.r)
    IN  IF k \in DOMAIN s.map
        THEN [s |-> SetKey(s, k, Append(s.map[k], e)), hit |-> TRUE]
        ELSE IF s.partial
             THEN [s |-> s, hit |-> FALSE]
             ELSE [s |-> SetKey(s, k, <<e>>), hit |-> TRUE]

\* insert_row(row, ts) -> accepted
SingleState_insert_row(s, id, r, ts) ==
    SingleState_insert_row_with_header(s, Entry(id, r, ts))

RemoveAt(es, i) == SubSeq(es, 1, i - 1) \o SubSeq(es, i + 1, Len(es))

\* remove_row(values, &mut hit, ts): removes one stored row equal to values
SingleState_remove_row(s, r, ts) ==
    LET k == KeyOf(s.key, r)
        pos == IF k \in DOMAIN s.map
               THEN {i \in 1..Len(s.map[k]) : s.map[k][i].r = r}
               ELSE {}
    IN  IF pos = {}
        THEN [s |-> s, hit |-> FALSE]
        ELSE LET i == CHOOSE j \in pos : \A j2 \in pos : j <= j2
             IN  [s |-> SetKey(s, k, RemoveAt(s.map[k], i)), hit |-> TRUE]

\* mark_filled(key)
SingleState_mark_filled(s, k) ==
    IF k \in DOMAIN s.map THEN s ELSE SetKey(s, k, <<>>)

\* the entries of index s stored under the keys ks
EntriesUnder(s, ks) ==
    UNION {Range(s.map[k]) : k \in ks \cap DOMAIN s.map}

AllEntries(s) == EntriesUnder(s, DOMAIN s.map)

IdsOf(s) == {e.id : e \in AllEntries(s)}

\* SingleState::rows
SingleState_rows(s) == SumOver(DOMAIN s.map, [k \in DOMAIN s.map |-> Len(s.map[k])])

\* Rc::strong_count of allocation id: one per index entry that holds it
strong_count(st, id) ==
    Cardinality({i \in 1..Len(st) : id \in IdsOf(st[i])})

\* bytes freed by dropping the keys ks of index i: the payload of the rows
\* no other index still references
FreedBytes(st, i, ks) ==
    LET gone == {e \in EntriesUnder(st[i], ks) : strong_count(st, e.id) = 1}
    IN  SumOver(gone, [e \in gone |-> deep_size_of(e.r)])

\* lookup(key, ts): Missing on a hole, else the rows stored under the key
Missing == [kind |-> "Missing", rows |-> <<>>]
Found(rs) == [kind |-> "Some", rows |-> rs]
\* the lookup halts the thread: no index is keyed on the columns
LookupPanic == [kind |-> "panic", rows |-> <<>>]

SingleState_lookup(s, k) ==
    IF k \in DOMAIN s.map
    THEN Found([i \in 1..Len(s.map[k]) |-> s.map[k][i].r])
    ELSE IF s.partial THEN Missing ELSE Found(<<>>)

(***************************************************************************)
(* MemoryState.  A store value m is [state, by_tag, mem_size]; an          *)
(* operation that can halt the thread returns the store it leaves behind   *)
(* together with failed, "none" or the failure.                            *)
(***************************************************************************)
Store(st, bt, ms) == [state |-> st, by_tag |-> bt, mem_size |-> ms]

Ok(m) == [m |-> m, failed |-> "none"]
Fail(m, why) == [m |-> m, failed |-> why]

\* MemoryState::default(), also what is left once a panic has unwound
Default == Store(<<>>, [t \in {} |-> 0], 0)

At(st, i) == st[i + 1]

\* state_for(cols): position of the index keyed on cols
state_for(st, cols) ==
    LET pos == {i \in 0..(Len(st) - 1) : At(st, i).key = cols}
    IN  IF pos = {} THEN None
        ELSE Some(CHOOSE i \in pos : \A j \in pos : i <= j)

\* is_partial(): any index is partial
is_partial(st) == \E i \in 1..Len(st) : st[i].partial

\* is_useful()
is_useful(st) == Len(st) > 0

\* rows(): sum of the indices' row counts
rows(st) == SumOver(1..Len(st), [i \in 1..Len(st) |-> SingleState_rows(st[i])])

\* keys(): the key-column sets in creation order
keys(st) == [i \in 1..Len(st) |-> st[i].key]

\* the backfill loops of add_key: for each key of old[0], in the order the
\* map yields them, every version but the one at position 0 is inserted
RECURSIVE BackfillKey(_, _, _)
BackfillKey(new, es, i) ==
    IF i > Len(es) THEN new
    ELSE BackfillKey(SingleState_insert_row_with_header(new, es[i]).s, es, i + 1)

RECURSIVE Backfill(_, _, _)
Backfill(new, old0, order) ==
    IF order = <<>> THEN new
    ELSE Backfill(BackfillKey(new, old0.map[Head(order)], 2), old0, Tail(order))

\* add_key that pushes a new index also when the columns are already keyed
add_key_pushes_again(m, columns, partial, order) ==
    LET sf == state_for(m.state, columns)
        i == IF sf.some THEN sf.v ELSE Len(m.state)
        tagged == IF partial.some
                  THEN [t \in (DOMAIN m.by_tag) \cup partial.v |->
                            IF t \in partial.v THEN i ELSE m.by_tag[t]]
                  ELSE m.by_tag
        new == SingleState_new(columns, partial.some)
        pushed == Append(m.state, new)
    IN  IF sf.some \/ partial.some \/ Len(m.state) = 0
        THEN Ok([m EXCEPT !.by_tag = tagged, !.state = pushed])
        ELSE IF m.state[1].partial
             THEN Fail([m EXCEPT !.state = pushed], "add_key: assert !old[0].partial()")
             ELSE Ok([m EXCEPT !.state =
                         Append(m.state, Backfill(new, m.state[1], order))])

\* add_key without the assertion on old[0]: a fully materialized index is
\* pushed behind a partial first index
add_key_unasserted(m, columns, partial, order) ==
    LET sf == state_for(m.state, columns)
        i == IF sf.some THEN sf.v ELSE Len(m.state)
        tagged == IF partial.some
                  THEN [t \in (DOMAIN m.by_tag) \cup partial.v |->
                            IF t \in partial.v THEN i ELSE m.by_tag[t]]
                  ELSE m.by_tag
        new == SingleState_new(columns, partial.some)
        pushed == Append(m.state, new)
    IN  IF sf.some
        THEN Ok([m EXCEPT !.by_tag = tagged])
        ELSE IF partial.some \/ Len(m.state) = 0
             THEN Ok([m EXCEPT !.by_tag = tagged, !.state = pushed])
             ELSE Ok([m EXCEPT !.state =
                         Append(m.state, Backfill(new, m.state[1], order))])

\* add_key(columns, partial); order is the iteration order of old[0]'s map
add_key(m, columns, partial, order) ==
    LET sf == state_for(m.state, columns)
        i == IF sf.some THEN sf.v ELSE Len(m.state)
        tagged == IF partial.some
                  THEN [t \in (DOMAIN m.by_tag) \cup partial.v |->
                            IF t \in partial.v THEN i ELSE m.by_tag[t]]
                  ELSE m.by_tag
        new == SingleState_new(columns, partial.some)
        pushed == Append(m.state, new)
    IN  IF sf.some
        THEN Ok([m EXCEPT !.by_tag = tagged])
        ELSE IF partial.some \/ Len(m.state) = 0
             THEN Ok([m EXCEPT !.by_tag = tagged, !.state = pushed])
             ELSE IF m.state[1].partial
                  THEN Fail([m EXCEPT !.state = pushed], "add_key: assert !old[0].partial()")
                  ELSE Ok([m EXCEPT !.state =
                              Append(m.state, Backfill(new, m.state[1], order))])

\* the allocation Rc::new makes: the least id no index holds, 0 when the
\* model's supply is exhausted
FreshId(st) ==
    LET free == {id \in RowIds : \A i \in 1..Len(st) : id \notin IdsOf(st[i])}
    IN  IF free = {} THEN 0 ELSE CHOOSE id \in free : \A j \in free : id <= j

\* the untagged loop of insert: the row goes to every index
RECURSIVE InsertAll(_, _, _, _, _)
InsertAll(st, i, id, r, ts) ==
    IF i > Len(st) THEN [state |-> st, hit |-> FALSE]
    ELSE LET one == SingleState_insert_row(st[i], id, r, ts)
             rest == InsertAll([st EXCEPT ![i] = one.s], i + 1, id, r, ts)
         IN  [state |-> rest.state, hit |-> one.hit \/ rest.hit]

\* insert whose tagged path reports a hit whatever the index answered
insert_tagged_always_hit(m, r, partial_tag, ts) ==
    LET id == FreshId(m.state)
    IN  IF partial_tag.some
        THEN IF partial_tag.v \notin DOMAIN m.by_tag
             THEN [m |-> m, hit |-> TRUE, over |-> FALSE]
             ELSE LET i == m.by_tag[partial_tag.v]
                      one == SingleState_insert_row(At(m.state, i), id, r, ts)
                  IN  [m |-> [m EXCEPT
                                !.mem_size = @ + deep_size_of(r) + VERSIONED_ROW_HEADER_SIZE,
                                !.state = [@ EXCEPT ![i + 1] = one.s]],
                       hit |-> TRUE,
                       over |-> one.hit /\ id = 0]
        ELSE LET all == InsertAll(m.state, 1, id, r, ts)
             IN  [m |-> [m EXCEPT
                           !.mem_size = IF all.hit THEN @ + deep_size_of(r) ELSE @,
                           !.state = all.state],
                  hit |-> all.hit,
                  over |-> all.hit /\ id = 0]

\* insert whose untagged path does not charge the memory estimate
insert_untagged_uncharged(m, r, partial_tag, ts) ==
    LET id == FreshId(m.state)
    IN  IF partial_tag.some
        THEN IF partial_tag.v \notin DOMAIN m.by_tag
             THEN [m |-> m, hit |-> TRUE, over |-> FALSE]
             ELSE LET i == m.by_tag[partial_tag.v]
                      one == SingleState_insert_row(At(m.state, i), id, r, ts)
                  IN  [m |-> [m EXCEPT
                                !.mem_size = @ + deep_size_of(r) + VERSIONED_ROW_HEADER_SIZE,
                                !.state = [@ EXCEPT ![i + 1] = one.s]],
                       hit |-> one.hit,
                       over |-> one.hit /\ id = 0]
        ELSE LET all == InsertAll(m.state, 1, id, r, ts)
             IN  [m |-> [m EXCEPT !.state = all.state],
                  hit |-> all.hit,
                  over |-> all.hit /\ id = 0]

\* insert that treats an unknown tag as no tag at all
insert_unknown_tag_untagged(m, r, partial_tag, ts) ==
    LET id == FreshId(m.state)
    IN  IF partial_tag.some /\ partial_tag.v \in DOMAIN m.by_tag
        THEN LET i == m.by_tag[partial_tag.v]
                 one == SingleState_insert_row(At(m.state, i), id, r, ts)
             IN  [m |-> [m EXCEPT
                           !.mem_size = @ + deep_size_of(r) + VERSIONED_ROW_HEADER_SIZE,
                           !.state = [@ EXCEPT ![i + 1] = one.s]],
                  hit |-> one.hit,
                  over |-> one.hit /\ id = 0]
        ELSE LET all == InsertAll(m.state, 1, id, r, ts)
             IN  [m |-> [m EXCEPT
                           !.mem_size = IF all.hit THEN @ + deep_size_of(r) ELSE @,
                           !.state = all.state],
                  hit |-> all.hit,
                  over |-> all.hit /\ id = 0]

\* insert whose untagged path charges the row once per accepting index
insert_charged_per_index(m, r, partial_tag, ts) ==
    LET id == FreshId(m.state)
    IN  IF partial_tag.some
        THEN IF partial_tag.v \notin DOMAIN m.by_tag
             THEN [m |-> m, hit |-> TRUE, over |-> FALSE]
             ELSE LET i == m.by_tag[partial_tag.v]
                      one == SingleState_insert_row(At(m.state, i), id, r, ts)
                  IN  [m |-> [m EXCEPT
                                !.mem_size = @ + deep_size_of(r) + VERSIONED_ROW_HEADER_SIZE,
                                !.state = [@ EXCEPT ![i + 1] = one.s]],
                       hit |-> one.hit,
                       over |-> one.hit /\ id = 0]
        ELSE LET all == InsertAll(m.state, 1, id, r, ts)
                 n == Cardinality({i \in 1..Len(m.state) :
                                     SingleState_insert_row(m.state[i], id, r, ts).hit})
             IN  [m |-> [m EXCEPT
                           !.mem_size = @ + n * deep_size_of(r),
                           !.state = all.state],
                  hit |-> all.hit,
                  over |-> all.hit /\ id = 0]

\* insert(r, partial_tag, ts) -> hit
insert(m, r, partial_tag, ts) ==
    LET id == FreshId(m.state)
    IN  IF partial_tag.some
        THEN IF partial_tag.v \notin DOMAIN m.by_tag
             THEN [m |-> m, hit |-> TRUE, over |-> FALSE]
             ELSE LET i == m.by_tag[partial_tag.v]
                      one == SingleState_insert_row(At(m.state, i), id, r, ts)
                  IN  [m |-> [m EXCEPT
                                !.mem_size = @ + deep_size_of(r) + VERSIONED_ROW_HEADER_SIZE,
                                !.state = [@ EXCEPT ![i + 1] = one.s]],
                       hit |-> one.hit,
                       over |-> one.hit /\ id = 0]
        ELSE LET all == InsertAll(m.state, 1, id, r, ts)
             IN  [m |-> [m EXCEPT
                           !.mem_size = IF all.hit THEN @ + deep_size_of(r) ELSE @,
                           !.state = all.state],
                  hit |-> all.hit,
                  over |-> all.hit /\ id = 0]

\* the loop of remove: the row is removed from every index that holds it
RECURSIVE RemoveAll(_, _, _, _)
RemoveAll(st, i, r, ts) ==
    IF i > Len(st) THEN [state |-> st, hit |-> FALSE]
    ELSE LET one == SingleState_remove_row(st[i], r, ts)
             rest == RemoveAll([st EXCEPT ![i] = one.s], i + 1, r, ts)
         IN  [state |-> rest.state, hit |-> one.hit \/ rest.hit]

\* remove that stops at the first index that held the row
remove_first_hit_only(m, r, ts) ==
    LET held == {i \in 1..Len(m.state) : SingleState_remove_row(m.state[i], r, ts).hit}
        i == CHOOSE x \in held : \A y \in held : x <= y
    IN  IF held = {}
        THEN [m |-> m, hit |-> FALSE, over |-> FALSE]
        ELSE [m |-> [m EXCEPT !.state[i] = SingleState_remove_row(m.state[i], r, ts).s],
              hit |-> TRUE, over |-> FALSE]

\* remove that gives the payload of a removed row back to the estimate
remove_giving_back(m, r, ts) ==
    LET all == RemoveAll(m.state, 1, r, ts)
        back == IF all.hit THEN deep_size_of(r) ELSE 0
    IN  [m |-> [m EXCEPT !.state = all.state,
                         !.mem_size = IF back > @ THEN 0 ELSE @ - back],
         hit |-> all.hit, over |-> FALSE]

\* remove(r, ts) -> hit
remove(m, r, ts) ==
    LET all == RemoveAll(m.state, 1, r, ts)
    IN  [m |-> [m EXCEPT !.state = all.state], hit |-> all.hit, over |-> FALSE]

\* one record of a batch: Positive goes to insert, Negative to remove
apply_record(m, rec, partial_tag, ts) ==
    IF rec.positive THEN insert(m, rec.r, partial_tag, ts) ELSE remove(m, rec.r, ts)

\* retain with the closure's result ignored: every record is kept
RECURSIVE retain_keeps_all(_, _, _, _)
retain_keeps_all(m, records, partial_tag, ts) ==
    IF records = <<>>
    THEN [m |-> m, records |-> <<>>, failed |-> "none", over |-> FALSE]
    ELSE LET one == apply_record(m, Head(records), partial_tag, ts)
             rest == retain_keeps_all(one.m, Tail(records), partial_tag, ts)
         IN  [m |-> rest.m,
              records |-> <<Head(records)>> \o rest.records,
              failed |-> "none",
              over |-> one.over \/ rest.over]

\* the partial branch of process_records: records.retain(...)
RECURSIVE retain(_, _, _, _)
retain(m, records, partial_tag, ts) ==
    IF records = <<>>
    THEN [m |-> m, records |-> <<>>, failed |-> "none", over |-> FALSE]
    ELSE LET one == apply_record(m, Head(records), partial_tag, ts)
             rest == retain(one.m, Tail(records), partial_tag, ts)
         IN  [m |-> rest.m,
              records |-> IF one.hit THEN <<Head(records)>> \o rest.records
                          ELSE rest.records,
              failed |-> "none",
              over |-> one.over \/ rest.over]

\* the fully materialized branch: every record must hit
RECURSIVE apply_all(_, _, _, _)
apply_all(m, records, all_records, ts) ==
    IF records = <<>>
    THEN [m |-> m, records |-> all_records, failed |-> "none", over |-> FALSE]
    ELSE LET one == apply_record(m, Head(records), None, ts)
         IN  IF ~one.hit
             THEN [m |-> one.m, records |-> all_records,
                   failed |-> "process_records: debug_assert!(hit)", over |-> FALSE]
             ELSE LET rest == apply_all(one.m, Tail(records), all_records, ts)
                  IN  [rest EXCEPT !.over = @ \/ one.over]

\* the fully materialized branch with the caller's tag handed to insert
RECURSIVE apply_all_tagged(_, _, _, _, _)
apply_all_tagged(m, records, all_records, ts, partial_tag) ==
    IF records = <<>>
    THEN [m |-> m, records |-> all_records, failed |-> "none", over |-> FALSE]
    ELSE LET one == apply_record(m, Head(records), partial_tag, ts)
         IN  IF ~one.hit
             THEN [m |-> one.m, records |-> all_records,
                   failed |-> "process_records: debug_assert!(hit)", over |-> FALSE]
             ELSE LET rest == apply_all_tagged(one.m, Tail(records), all_records, ts,
                                               partial_tag)
                  IN  [rest EXCEPT !.over = @ \/ one.over]

\* process_records that passes partial_tag on in both branches
process_records_tag_passed(m, records, ts, partial_tag) ==
    IF is_partial(m.state)
    THEN retain(m, records, partial_tag, ts)
    ELSE apply_all_tagged(m, records, records, ts, partial_tag)

\* process_records that walks the batch from its last record to its first
process_records_backwards(m, records, ts, partial_tag) ==
    LET Reversed(q) == [i \in 1..Len(q) |-> q[Len(q) + 1 - i]]
        rev == Reversed(records)
        res == IF is_partial(m.state)
               THEN retain(m, rev, partial_tag, ts)
               ELSE apply_all(m, rev, rev, ts)
    IN  [res EXCEPT !.records = Reversed(@)]

\* process_records(records, ts, partial_tag)
process_records(m, records, ts, partial_tag) ==
    IF is_partial(m.state)
    THEN retain(m, records, partial_tag, ts)
    ELSE apply_all(m, records, records, ts)

\* mark_filled(key, tag)
mark_filled(m, key, tag) ==
    IF Len(m.state) = 0
    THEN Fail(m, "mark_filled: filling uninitialized index")
    ELSE IF tag \notin DOMAIN m.by_tag
         THEN Fail(m, "mark_filled: by_tag[&tag] on unknown tag")
         ELSE LET index == m.by_tag[tag]
              IN  Ok([m EXCEPT !.state[index + 1] = SingleState_mark_filled(@, key)])

\* SingleState::mark_hole(key) -> freed bytes, applied to index i of st
SingleState_mark_hole(st, i, key) ==
    [s |-> DropKeys(At(st, i), {key}), freed |-> FreedBytes(st, i + 1, {key})]

\* mark_hole(key, tag)
mark_hole(m, key, tag) ==
    IF Len(m.state) = 0
    THEN Fail(m, "mark_hole: filling uninitialized index")
    ELSE IF tag \notin DOMAIN m.by_tag
         THEN Fail(m, "mark_hole: by_tag[&tag] on unknown tag")
         ELSE LET index == m.by_tag[tag]
                  res == SingleState_mark_hole(m.state, index, key)
                  holed == [m EXCEPT !.state[index + 1] = res.s]
              IN  IF res.freed > m.mem_size
                  THEN Fail(holed, "mark_hole: checked_sub underflow")
                  ELSE Ok([holed EXCEPT !.mem_size = @ - res.freed])

\* lookup(columns, key) = lookup_at(columns, key, None)
lookup(m, columns, key) ==
    LET sf == state_for(m.state, columns)
    IN  IF sf.some THEN SingleState_lookup(At(m.state, sf.v), key) ELSE LookupPanic

\* cloned_records(): every row of the index at position 0, which must
\* exist and be fully materialized; the rows come in the order the map
\* yields them, so records is the bag of the rows (row |-> copies)
cloned_records(m) ==
    IF Len(m.state) = 0
    THEN [failed |-> "cloned_records: state[0] out of bounds", records |-> <<>>]
    ELSE IF m.state[1].partial
         THEN [failed |-> "cloned_records: assert !state[0].partial()", records |-> <<>>]
         ELSE LET es == AllEntries(m.state[1])
              IN  [failed |-> "none",
                   records |-> [r \in {e.r : e \in es} |->
                                   Cardinality({e \in es : e.r = r})]]

\* subtraction that is not clamped at zero
unclamped_sub(a, b) == a - b

\* u64::saturating_sub
saturating_sub(a, b) == IF b > a THEN 0 ELSE a - b

\* SingleState::evict_keys(keys) -> freed bytes, applied to index i of st
SingleState_evict_keys(st, i, ks) ==
    [s |-> DropKeys(At(st, i), ks), freed |-> FreedBytes(st, i + 1, ks)]

\* evict_random_keys that reports the key columns of the index at position 0
evict_random_keys_first_key(m, count, index, ks) ==
    LET res == SingleState_evict_keys(m.state, index, ks)
    IN  [m |-> [m EXCEPT !.state[index + 1] = res.s,
                         !.mem_size = saturating_sub(@, res.freed)],
         key |-> At(m.state, 0).key, keys |-> ks, bytes |-> res.freed]

\* evict_random_keys(count); index and ks are what the rng draws
evict_random_keys(m, count, index, ks) ==
    LET res == SingleState_evict_keys(m.state, index, ks)
    IN  [m |-> [m EXCEPT !.state[index + 1] = res.s,
                         !.mem_size = saturating_sub(@, res.freed)],
         key |-> At(m.state, index).key, keys |-> ks, bytes |-> res.freed]

\* evict_keys that drops the keys from every index, not only the tagged one
evict_keys_every_index(m, tag, ks) ==
    IF tag \notin DOMAIN m.by_tag
    THEN [m |-> m, ret |-> None]
    ELSE LET index == m.by_tag[tag]
             res == SingleState_evict_keys(m.state, index, ks)
         IN  [m |-> [m EXCEPT !.state = [i \in 1..Len(m.state) |-> DropKeys(m.state[i], ks)],
                              !.mem_size = saturating_sub(@, res.freed)],
              ret |-> Some([key |-> At(m.state, index).key, bytes |-> res.freed])]

\* evict_keys(tag, keys)
evict_keys(m, tag, ks) ==
    IF tag \notin DOMAIN m.by_tag
    THEN [m |-> m, ret |-> None]
    ELSE LET index == m.by_tag[tag]
             res == SingleState_evict_keys(m.state, index, ks)
         IN  [m |-> [m EXCEPT !.state[index + 1] = res.s,
                              !.mem_size = saturating_sub(@, res.freed)],
              ret |-> Some([key |-> At(m.state, index).key, bytes |-> res.freed])]

\* clear that empties only the index at position 0
clear_first_index_only(m) ==
    [m EXCEPT !.state = [i \in 1..Len(m.state) |->
                            IF i = 1 THEN DropKeys(m.state[i], DOMAIN m.state[i].map)
                            ELSE m.state[i]],
              !.mem_size = 0]

\* clear()
clear(m) ==
    [m EXCEPT !.state = [i \in 1..Len(m.state) |-> DropKeys(m.state[i], DOMAIN m.state[i].map)],
              !.mem_size = 0]

(***************************************************************************)
(* The state machine.  state, by_tag and mem_size are the fields of        *)
(* MemoryState; failed is "none" until an operation halts the thread (a    *)
(* panic, a failed assertion): the unwinding drops the store and nothing   *)
(* runs afterwards.                                                        *)
(***************************************************************************)
M == Store(state, by_tag, mem_size)

(***************************************************************************)
(* The id of an entry only tells which entries share one allocation, so    *)
(* the ids are renamed after every call to the order of their first use    *)
(* (index by index, key by key, version by version).                       *)
(***************************************************************************)
AllIds(st) == UNION {IdsOf(st[i]) : i \in 1..Len(st)}

UsesOf(st, id) ==
    UNION {UNION {{<<i, k[1], j>> : j \in {x \in 1..Len(st[i].map[k]) :
                                             st[i].map[k][x].id = id}} :
                  k \in DOMAIN st[i].map} : i \in 1..Len(st)}

Before(u, v) ==
    \/ u[1] < v[1]
    \/ u[1] = v[1] /\ u[2] < v[2]
    \/ u[1] = v[1] /\ u[2] = v[2] /\ u[3] <= v[3]

FirstUse(st, id) ==
    CHOOSE u \in UsesOf(st, id) : \A v \in UsesOf(st, id) : Before(u, v)

Rank(st, id) ==
    Cardinality({o \in AllIds(st) : Before(FirstUse(st, o), FirstUse(st, id))})

Renumber(st) ==
    [i \in 1..Len(st) |->
        [st[i] EXCEPT !.map = [k \in DOMAIN st[i].map |->
            [j \in 1..Len(st[i].map[k]) |->
                [st[i].map[k][j] EXCEPT !.id = Rank(st, st[i].map[k][j].id)]]]]]

Return(res) ==
    /\ failed' = res.failed
    /\ state' = IF res.failed = "none" THEN Renumber(res.m.state) ELSE Default.state
    /\ by_tag' = IF res.failed = "none" THEN res.m.by_tag ELSE Default.by_tag
    /\ mem_size' = IF res.failed = "none" THEN res.m.mem_size ELSE Default.mem_size

\* the orders in which a map can yield the keys ks
Orders(ks) ==
    {o \in [1..Cardinality(ks) -> ks] : \A i, j \in DOMAIN o : i # j => o[i] # o[j]}

\* the orders add_key(columns, partial) can meet in its backfill loop
BackfillOrders(m, columns, partial) ==
    IF Len(m.state) > 0 /\ ~partial.some
       /\ ~state_for(m.state, columns).some /\ ~m.state[1].partial
    THEN Orders(DOMAIN m.state[1].map)
    ELSE {<<>>}

\* the key sets evict_random_keys(count) can draw from index `index`
RandomKeys(m, count, index) ==
    LET present == DOMAIN At(m.state, index).map
        n == IF count < Cardinality(present) THEN count ELSE Cardinality(present)
    IN  {ks \in SUBSET present : Cardinality(ks) = n}

OptionTags == {None} \cup {Some(T) : T \in SUBSET Tags}
OptionTag == {None} \cup {Some(t) : t \in Tags}

Init ==
    /\ state = Default.state
    /\ by_tag = Default.by_tag
    /\ mem_size = Default.mem_size
    /\ failed = "none"

AddKey ==
    /\ failed = "none"
    /\ \E columns \in KeyColumns, partial \in OptionTags :
         \E order \in BackfillOrders(M, columns, partial) :
           Return(add_key(M, columns, partial, order))

ProcessRecords ==
    /\ failed = "none"
    /\ \E records \in Batches, ts \in Timestamps, partial_tag \in OptionTag :
         LET res == process_records(M, records, ts, partial_tag)
         IN  /\ ~res.over
             /\ res.m.mem_size <= MaxMem
             /\ Return(res)

MarkFilled ==
    /\ failed = "none"
    /\ \E key \in Keys, tag \in Tags :
         Return(mark_filled(M, key, tag))

MarkHole ==
    /\ failed = "none"
    /\ \E key \in Keys, tag \in Tags :
         Return(mark_hole(M, key, tag))

EvictRandomKeys ==
    /\ failed = "none"
    /\ \E count \in 0..MaxEvict :
         IF Len(state) = 0
         THEN Return(Fail(M, "evict_random_keys: gen_range(0, 0)"))
         ELSE \E index \in 0..(Len(state) - 1) :
                \E ks \in RandomKeys(M, count, index) :
                  Return(Ok(evict_random_keys(M, count, index, ks).m))

EvictKeys ==
    /\ failed = "none"
    /\ \E tag \in Tags, ks \in SUBSET Keys :
         Return(Ok(evict_keys(M, tag, ks).m))

Clear ==
    /\ failed = "none"
    /\ Return(Ok(clear(M)))

Next ==
    \/ AddKey
    \/ ProcessRecords
    \/ MarkFilled
    \/ MarkHole
    \/ EvictRandomKeys
    \/ EvictKeys
    \/ Clear

Spec == Init /\ [][Next]_vars

(***************************************************************************)
(* A store that only ever has fully materialized indices and only sees     *)
(* untagged inserts: add_key(columns, None) and process_records of         *)
(* positive records with no tag.                                           *)
(***************************************************************************)
PositiveBatches == {b \in Batches : \A i \in 1..Len(b) : b[i].positive}

AddKeyFull ==
    /\ failed = "none"
    /\ \E columns \in KeyColumns :
         \E order \in BackfillOrders(M, columns, None) :
           Return(add_key(M, columns, None, order))

InsertUntagged ==
    /\ failed = "none"
    /\ \E records \in PositiveBatches, ts \in Timestamps :
         LET res == process_records(M, records, ts, None)
         IN  /\ ~res.over
             /\ res.m.mem_size <= MaxMem
             /\ Return(res)

NextFull ==
    \/ AddKeyFull
    \/ InsertUntagged

SpecFull == Init /\ [][NextFull]_vars

(***************************************************************************)
(* Vocabulary of the properties.                                           *)
(***************************************************************************)
Running == failed = "none"

\* the number of stored rows of index s equal to r
Count(s, r) == Cardinality({e \in AllEntries(s) : e.r = r})

Holds(s, r) == Count(s, r) > 0

\* a point lookup of r's key on index i (0-based) returns r
LookupFinds(m, i, r) ==
    LET cols == At(m.state, i).key
        res == lookup(m, cols, KeyOf(cols, r))
    IN  res.kind = "Some" /\ r \in Range(res.rows)

\* r's key is a hole in index s
IsHole(s, r) == s.partial /\ KeyOf(s.key, r) \notin DOMAIN s.map

HoleEverywhere(st, r) == \A i \in 1..Len(st) : IsHole(st[i], r)

Positions(st) == 0..(Len(st) - 1)

(***************************************************************************)
(* C1.  Index agreement with backfill: in a store that has only fully      *)
(* materialized indices and has only seen untagged inserts, every inserted *)
(* row (every row the first index holds) is returned by a point lookup of  *)
(* its key on every index, also on an index that add_key(columns, None)    *)
(* created after the inserts.                                              *)
(* The backfill loop of add_key skips the version at position 0 of every   *)
(* key, so TLC finds this violated.                                        *)
(***************************************************************************)
C1_IndexAgreement ==
    Running /\ Len(state) > 0 =>
        \A i \in Positions(state) :
            \A e \in AllEntries(state[1]) : LookupFinds(M, i, e.r)

(***************************************************************************)
(* C2.  Partial filtering: in a partial store, process_records with no     *)
(* tag drops every positive record whose key is a hole in every index,     *)
(* and a lookup of that key on any index then does not find the row; and   *)
(* after mark_filled(key, tag) for a registered tag, inserting a row of    *)
(* that key under the tag makes lookup on that index find the row.         *)
(***************************************************************************)
C2_PartialFiltering ==
    Running /\ is_partial(state) =>
        /\ \A records \in Batches, ts \in Timestamps :
             LET res == process_records(M, records, ts, None)
             IN  \A n \in 1..Len(records) :
                    records[n].positive /\ HoleEverywhere(state, records[n].r) =>
                        /\ records[n] \notin Range(res.records)
                        /\ \A i \in Positions(state) :
                              /\ lookup(res.m, At(state, i).key,
                                        KeyOf(At(state, i).key, records[n].r)).kind = "Missing"
                              /\ ~Holds(At(res.m.state, i), records[n].r)
        /\ \A tag \in DOMAIN by_tag, r \in Rows, ts \in Timestamps :
             LET i == by_tag[tag]
                 filled == mark_filled(M, KeyOf(At(state, i).key, r), tag)
                 res == process_records(filled.m, <<Positive(r)>>, ts, Some(tag))
             IN  /\ filled.failed = "none"
                 /\ res.failed = "none"
                 /\ LookupFinds(res.m, i, r)

\* a partial store with a registered tag where a record of a key that is a
\* hole everywhere is dropped, and is found once filled and inserted tagged
C2_Witness ==
    /\ Running /\ is_partial(state)
    /\ \E tag \in DOMAIN by_tag, r \in Rows, ts \in Timestamps :
         LET i == by_tag[tag]
             dropped == process_records(M, <<Positive(r)>>, ts, None)
             filled == mark_filled(M, KeyOf(At(state, i).key, r), tag)
             res == process_records(filled.m, <<Positive(r)>>, ts, Some(tag))
         IN  /\ HoleEverywhere(state, r)
             /\ dropped.records = <<>>
             /\ ~LookupFinds(dropped.m, i, r)
             /\ res.records = <<Positive(r)>>
             /\ LookupFinds(res.m, i, r)

(***************************************************************************)
(* C3 as stated.  In a partial store every record of a batch passed with   *)
(* a replay tag is retained, whatever the hole/filled status of its key    *)
(* in the tagged index.  Stated here for the positive records of a batch   *)
(* passed with a registered tag, the case the claim is about.              *)
(***************************************************************************)
C3_TaggedAlwaysRetained ==
    Running /\ is_partial(state) =>
        \A records \in PositiveBatches, ts \in Timestamps, tag \in DOMAIN by_tag :
            process_records(M, records, ts, Some(tag)).records = records

(***************************************************************************)
(* C3 as amended.  In a partial store the positive records retained from   *)
(* a batch passed with a replay tag are exactly those whose tag is not     *)
(* registered or whose key is not a hole in the tagged index (a tagged     *)
(* record whose key is a hole there is dropped); a negative record is      *)
(* retained iff some index held a matching row.                            *)
(***************************************************************************)
C3_TaggedRetainedIffAccepted ==
    Running /\ is_partial(state) =>
        \A records \in Batches, ts \in Timestamps, tag \in Tags :
            LET res == process_records(M, records, ts, Some(tag))
                IsPositive(rec) == rec.positive
                Accepted(rec) ==
                    /\ rec.positive
                    /\ \/ tag \notin DOMAIN by_tag
                       \/ ~IsHole(At(state, by_tag[tag]), rec.r)
            IN  /\ res.failed = "none"
                /\ SelectSeq(res.records, IsPositive) = SelectSeq(records, Accepted)
                /\ Len(records) = 1 /\ ~records[1].positive =>
                     res.records = IF \E i \in 1..Len(state) : Holds(state[i], records[1].r)
                                   THEN records ELSE <<>>

\* a partial store with a registered tag: one tagged batch holds a record
\* of a filled key, which is retained, and one of a hole, which is dropped
C3_Witness ==
    /\ Running /\ is_partial(state)
    /\ \E tag \in DOMAIN by_tag, r1, r2 \in Rows, ts \in Timestamps :
         /\ ~IsHole(At(state, by_tag[tag]), r1)
         /\ IsHole(At(state, by_tag[tag]), r2)
         /\ process_records(M, <<Positive(r2), Positive(r1)>>, ts, Some(tag)).records
              = <<Positive(r1)>>

(***************************************************************************)
(* C4.  On a store with an index, mark_filled(key, tag) and                *)
(* mark_hole(key, tag) with a tag that add_key never registered are a      *)
(* silent no-op: no failure, and the indices, the tag map and the memory   *)
(* estimate are unchanged.                                                 *)
(* Both index by_tag with the tag (self.by_tag[&tag]), which panics on a   *)
(* missing key, so TLC finds this violated.                                *)
(***************************************************************************)
C4_UnknownTagMarkIsNoOp ==
    /\ failed \notin {"mark_filled: by_tag[&tag] on unknown tag",
                      "mark_hole: by_tag[&tag] on unknown tag"}
    /\ Running /\ Len(state) > 0 =>
         \A key \in Keys, tag \in Tags \ DOMAIN by_tag :
            /\ mark_filled(M, key, tag) = Ok(M)
            /\ mark_hole(M, key, tag) = Ok(M)

C6_MemoryRoundTrip ==
    Running /\ is_partial(state) =>
        \A tag \in DOMAIN by_tag, r \in Rows, ts \in Timestamps :
            LET i == by_tag[tag]
                key == KeyOf(At(state, i).key, r)
                ins == process_records(M, <<Positive(r)>>, ts, Some(tag))
                hole == mark_hole(ins.m, key, tag)
            IN  EntriesUnder(At(state, i), {key}) = {} =>
                    /\ hole.failed = "none"
                    /\ hole.m.mem_size = mem_size

(***************************************************************************)
(* C7.  Full-index completeness (INV-1): every fully materialized index    *)
(* holds every row that any index of the store holds.  Stated here for     *)
(* the stores with exactly one fully materialized index, which no          *)
(* backfill has touched.                                                   *)
(* A tagged insert stores the row in the tagged index only, and the        *)
(* evictions and mark_hole also reach fully materialized indices, so TLC   *)
(* finds this violated.                                                    *)
(***************************************************************************)
C7_FullIndexComplete ==
    Running /\ Cardinality({i \in 1..Len(state) : ~state[i].partial}) = 1 =>
        \A i, j \in 1..Len(state) :
            ~state[i].partial =>
                \A e \in AllEntries(state[j]) : Holds(state[i], e.r)

\* some index of st holds a row equal to r
HeldSomewhere(st, r) == \E i \in 1..Len(st) : Holds(st[i], r)

\* index by index, the number of stored rows equal to r
Counts(st, r) == [i \in 1..Len(st) |-> Count(st[i], r)]

(***************************************************************************)
(* C8 as stated.  Deleting row values that no index holds, through         *)
(* process_records on a store with an index, reports no hit and is not an  *)
(* error.                                                                  *)
(***************************************************************************)
C8_DeleteOfAbsentRowIsNoError ==
    Running /\ Len(state) > 0 =>
        \A r \in Rows, ts \in Timestamps, partial_tag \in OptionTag :
            ~HeldSomewhere(state, r) =>
                process_records(M, <<Negative(r)>>, ts, partial_tag).failed = "none"

(***************************************************************************)
(* C8 as amended.  Deleting the values of a stored row through             *)
(* process_records removes one row of those values from every index that   *)
(* held one and leaves every other row in place, so a row inserted and     *)
(* then deleted is held as often as before the insert (not at all if it    *)
(* was new), while the other rows are still found.  remove of values that  *)
(* no index holds reports no hit and changes nothing; process_records      *)
(* then drops the record without an error in a partial store, and halts    *)
(* on debug_assert!(hit) in a store with no partial index.                 *)
(***************************************************************************)
C8_RemovalCorrectness ==
    Running /\ Len(state) > 0 =>
        \A r \in Rows, ts \in Timestamps, partial_tag \in OptionTag :
            LET del == process_records(M, <<Negative(r)>>, ts, partial_tag)
                both == process_records(M, <<Positive(r), Negative(r)>>, ts, None)
            IN  /\ HeldSomewhere(state, r) =>
                     /\ del.failed = "none"
                     /\ del.records = <<Negative(r)>>
                     /\ \A i \in 1..Len(state) :
                           /\ Count(del.m.state[i], r)
                                = IF Holds(state[i], r) THEN Count(state[i], r) - 1 ELSE 0
                           /\ \A o \in Rows \ {r} :
                                 /\ Count(del.m.state[i], o) = Count(state[i], o)
                                 /\ Holds(state[i], o) => LookupFinds(del.m, i - 1, o)
                /\ ~HeldSomewhere(state, r) =>
                     /\ remove(M, r, ts).hit = FALSE
                     /\ remove(M, r, ts).m = M
                     /\ del.m = M
                     /\ is_partial(state) => del.failed = "none" /\ del.records = <<>>
                     /\ ~is_partial(state) =>
                           del.failed = "process_records: debug_assert!(hit)"
                /\ both.failed = "none" =>
                     \A o \in Rows : Counts(both.m.state, o) = Counts(state, o)

\* two indices hold a row r and another row o; r is deleted from both and
\* a lookup of its key then returns nothing on an index where o is found
C8_Witness ==
    /\ Running /\ Len(state) = 2
    /\ \E r, o \in Rows, ts \in Timestamps :
         LET del == process_records(M, <<Negative(r)>>, ts, None)
         IN  /\ r # o
             /\ \A i \in 1..2 : Holds(state[i], r) /\ Holds(state[i], o)
             /\ del.failed = "none"
             /\ \A i \in 1..2 : ~Holds(del.m.state[i], r) /\ LookupFinds(del.m, i - 1, o)
             /\ \E i \in 0..1 :
                   lookup(del.m, At(state, i).key, KeyOf(At(state, i).key, r)).rows = <<>>

(***************************************************************************)
(* C9.  In a store with no partial index, process_records does not filter  *)
(* the batch and ignores the replay tag, and applies every record to       *)
(* every index: a positive record adds the row to every index, a negative  *)
(* record removes one matching row from every index that holds one.  A     *)
(* positive record that no index accepts (there is no index) or a          *)
(* negative record that no index matches halts on debug_assert!(hit)       *)
(* instead of returning a value.                                           *)
(***************************************************************************)
C9_FullStoreAppliesEveryRecord ==
    Running /\ ~is_partial(state) =>
        \A records \in Batches, ts \in Timestamps, partial_tag \in OptionTag :
            LET res == process_records(M, records, ts, partial_tag)
            IN  /\ res.records = records
                /\ res = process_records(M, records, ts, None)
                /\ Len(records) = 1 /\ records[1].positive =>
                     /\ res.failed = (IF Len(state) = 0
                                      THEN "process_records: debug_assert!(hit)"
                                      ELSE "none")
                     /\ \A i \in 1..Len(state) :
                           Count(res.m.state[i], records[1].r)
                             = Count(state[i], records[1].r) + 1
                /\ Len(records) = 1 /\ ~records[1].positive =>
                     /\ res.failed = (IF HeldSomewhere(state, records[1].r)
                                      THEN "none"
                                      ELSE "process_records: debug_assert!(hit)")
                     /\ \A i \in 1..Len(state) :
                           Count(res.m.state[i], records[1].r)
                             = IF Holds(state[i], records[1].r)
                               THEN Count(state[i], records[1].r) - 1 ELSE 0
                /\ res.failed = "none" =>
                     \A n \in 1..Len(records) :
                        records[n].positive \/ HeldSomewhere(state, records[n].r)
                          \/ \E k \in 1..(n - 1) : records[k] = Positive(records[n].r)

\* a store of two fully materialized indices with a registered tag: a
\* tagged batch of an insert and a delete is applied to both indices and
\* comes back unfiltered
C9_Witness ==
    /\ Running /\ Len(state) = 2 /\ ~is_partial(state)
    /\ \E tag \in DOMAIN by_tag, r, o \in Rows, ts \in Timestamps :
         LET res == process_records(M, <<Positive(r), Negative(o)>>, ts, Some(tag))
         IN  /\ r # o
             /\ \A i \in 1..2 : Holds(state[i], o)
             /\ res.failed = "none"
             /\ res.records = <<Positive(r), Negative(o)>>
             /\ \A i \in 1..2 :
                   /\ Count(res.m.state[i], r) = Count(state[i], r) + 1
                   /\ Count(res.m.state[i], o) = Count(state[i], o) - 1

(***************************************************************************)
(* C10.  A tagged insert whose tag add_key never registered raises no      *)
(* error and reports a hit: it stores the row in no index and leaves the   *)
(* memory estimate unchanged, and in a partial store process_records       *)
(* retains the record.                                                     *)
(***************************************************************************)
C10_UnknownTagInsertAccepted ==
    Running =>
        \A tag \in Tags \ DOMAIN by_tag, ts \in Timestamps :
            /\ \A r \in Rows :
                  /\ insert(M, r, Some(tag), ts).hit
                  /\ insert(M, r, Some(tag), ts).m = M
            /\ is_partial(state) =>
                  \A records \in PositiveBatches :
                     LET res == process_records(M, records, ts, Some(tag))
                     IN  /\ res.failed = "none"
                         /\ res.records = records
                         /\ res.m = M

\* a partial store whose tag is not registered, holding a filled key: the
\* tagged record of that key is retained and stored nowhere, where the
\* same record without a tag is stored
C10_Witness ==
    /\ Running /\ is_partial(state)
    /\ \E tag \in Tags \ DOMAIN by_tag, r \in Rows, ts \in Timestamps :
         /\ ~HoleEverywhere(state, r)
         /\ process_records(M, <<Positive(r)>>, ts, Some(tag)).records = <<Positive(r)>>
         /\ process_records(M, <<Positive(r)>>, ts, Some(tag)).m = M
         /\ process_records(M, <<Positive(r)>>, ts, None).m # M

(***************************************************************************)
(* C11.  evict_keys(tag, keys) with a tag that is not registered changes   *)
(* nothing and returns None.  With a registered tag it drops the given     *)
(* keys from the index the tag maps to and from no other index, leaves     *)
(* the index list and the tag map as they were, and returns Some of that   *)
(* index's key-column set and the bytes the index reported as freed.       *)
(***************************************************************************)
C11_EvictKeysByTag ==
    Running =>
        \A tag \in Tags, ks \in SUBSET Keys :
            LET res == evict_keys(M, tag, ks)
            IN  IF tag \notin DOMAIN by_tag
                THEN res.ret = None /\ res.m = M
                ELSE LET i == by_tag[tag] + 1
                     IN  /\ res.ret = Some([key |-> state[i].key,
                                            bytes |-> FreedBytes(state, i, ks)])
                         /\ res.m.by_tag = by_tag
                         /\ Len(res.m.state) = Len(state)
                         /\ \A j \in 1..Len(state) : j # i => res.m.state[j] = state[j]
                         /\ res.m.state[i].key = state[i].key
                         /\ res.m.state[i].partial = state[i].partial
                         /\ DOMAIN res.m.state[i].map = (DOMAIN state[i].map) \ ks
                         /\ \A k \in DOMAIN res.m.state[i].map :
                               res.m.state[i].map[k] = state[i].map[k]

\* two indices that hold rows under the same key value, one of them tagged:
\* evicting that key by tag frees bytes, empties the key in the tagged
\* index and leaves the other index's rows in place
C11_Witness ==
    /\ Running /\ Len(state) = 2
    /\ \E tag \in DOMAIN by_tag, k \in Keys :
         LET res == evict_keys(M, tag, {k})
             i == by_tag[tag] + 1
         IN  /\ \A j \in 1..2 : k \in DOMAIN state[j].map /\ state[j].map[k] # <<>>
             /\ res.ret.some /\ res.ret.v.bytes > 0
             /\ k \notin DOMAIN res.m.state[i].map
             /\ res.m.state[3 - i] = state[3 - i]

(***************************************************************************)
(* C12.  Eviction is saturating.  Whatever the memory estimate is when     *)
(* the call is made (the store's own estimate or a stale one, lower or     *)
(* higher), evict_keys and evict_random_keys leave it at                   *)
(* max(0, estimate - bytes freed): never below zero, and zero when the     *)
(* index reports more freed bytes than the estimate holds.  Neither        *)
(* operation has a failure path for the subtraction.                       *)
(***************************************************************************)
C12_EvictionSaturates ==
    Running =>
        \A est \in 0..MaxMem :
            LET m == [M EXCEPT !.mem_size = est]
            IN  /\ \A tag \in Tags, ks \in SUBSET Keys :
                      LET res == evict_keys(m, tag, ks)
                          freed == IF res.ret.some THEN res.ret.v.bytes ELSE 0
                      IN  /\ res.m.mem_size >= 0
                          /\ res.m.mem_size = IF freed > est THEN 0 ELSE est - freed
                /\ \A count \in 0..MaxEvict, index \in Positions(state) :
                      \A ks \in RandomKeys(m, count, index) :
                         LET res == evict_random_keys(m, count, index, ks)
                         IN  /\ res.m.mem_size >= 0
                             /\ res.m.mem_size = IF res.bytes > est THEN 0
                                                 ELSE est - res.bytes

\* a tagged index holding a row that no other index references: evicting
\* its key frees the row's payload and lowers the store's estimate by it,
\* and the same eviction started from an estimate of zero ends at zero
C12_Witness ==
    /\ Running
    /\ \E tag \in DOMAIN by_tag, k \in Keys :
         LET res == evict_keys(M, tag, {k})
             stale == evict_keys([M EXCEPT !.mem_size = 0], tag, {k})
             rnd == evict_random_keys([M EXCEPT !.mem_size = 0], 1, by_tag[tag], {k})
         IN  /\ res.ret.v.bytes > 0
             /\ res.m.mem_size = mem_size - res.ret.v.bytes
             /\ res.m.mem_size < mem_size
             /\ stale.ret.v.bytes > 0 /\ stale.m.mem_size = 0
             /\ {k} \in RandomKeys(M, 1, by_tag[tag])
             /\ rnd.bytes > 0 /\ rnd.m.mem_size = 0

(***************************************************************************)
(* C13.  clear resets fully: after clear every index has zero rows and     *)
(* the memory estimate is zero, while the index registrations (keys(),     *)
(* their order, the partial flag of each index) and the tag map are what   *)
(* they were.                                                              *)
(***************************************************************************)
C13_ClearResetsFully ==
    Running =>
        LET m == clear(M)
        IN  /\ rows(m.state) = 0
            /\ \A i \in 1..Len(m.state) : SingleState_rows(m.state[i]) = 0
            /\ m.mem_size = 0
            /\ keys(m.state) = keys(state)
            /\ \A i \in 1..Len(state) : m.state[i].partial = state[i].partial
            /\ m.by_tag = by_tag

\* a store of two indices that both hold rows, with a registered tag and a
\* positive estimate: clear leaves no row and no estimate
C13_Witness ==
    /\ Running /\ Len(state) = 2
    /\ \A i \in 1..2 : SingleState_rows(state[i]) > 0
    /\ mem_size > 0
    /\ DOMAIN by_tag # {}
    /\ rows(clear(M).state) = 0
    /\ clear(M).mem_size = 0
    /\ clear(M).by_tag = by_tag

\* the lists of two distinct columns
ColumnPairs ==
    {<<a, b>> : a, b \in 0..(NumCols - 1)} \ {<<a, a>> : a \in 0..(NumCols - 1)}

\* add_key(columns, partial) on m only merges the tags of partial
OnlyMergesTags(m, columns, partial) ==
    LET res == add_key(m, columns, partial, <<>>)
        tags == IF partial.some THEN partial.v ELSE {}
        pos == CHOOSE i \in Positions(m.state) : At(m.state, i).key = columns
    IN  /\ res.failed = "none"
        /\ res.m.state = m.state
        /\ keys(res.m.state) = keys(m.state)
        /\ res.m.mem_size = m.mem_size
        /\ DOMAIN res.m.by_tag = (DOMAIN m.by_tag) \cup tags
        /\ \A t \in DOMAIN res.m.by_tag :
              res.m.by_tag[t] = IF t \in tags THEN pos ELSE m.by_tag[t]

(***************************************************************************)
(* C14.  add_key is idempotent on an existing key-column set: called with  *)
(* the columns of an existing index it returns without failure, creates no *)
(* index, and leaves keys(), every index's contents and partial flag and   *)
(* the memory estimate unchanged; its only effect is that every supplied   *)
(* tag maps to the existing index's position.  The comparison of column    *)
(* lists is order-sensitive: after an index on <<a, b>> is registered,     *)
(* add_key(<<a, b>>) is such a re-registration and add_key(<<b, a>>)       *)
(* creates a new index.                                                    *)
(***************************************************************************)
C14_AddKeyIdempotent ==
    Running =>
        /\ \A i \in 1..Len(state), partial \in OptionTags :
              /\ BackfillOrders(M, state[i].key, partial) = {<<>>}
              /\ OnlyMergesTags(M, state[i].key, partial)
        /\ \A columns \in ColumnPairs, first \in OptionTags :
              \A order \in BackfillOrders(M, columns, first) :
                 LET one == add_key(M, columns, first, order)
                     swapped == <<columns[2], columns[1]>>
                 IN  one.failed = "none" =>
                        /\ Len(one.m.state) = Len(state) + 1
                        /\ \A partial \in OptionTags :
                              /\ OnlyMergesTags(one.m, columns, partial)
                              /\ partial.some =>
                                    Len(add_key(one.m, swapped, partial, <<>>).m.state)
                                      = Len(state) + 2

\* two indices that hold rows, the tag registered for the first: add_key on
\* the second index's columns with that tag moves the tag to position 1 and
\* changes nothing else
C14_Witness ==
    /\ Running /\ Len(state) = 2
    /\ \A i \in 1..2 : SingleState_rows(state[i]) > 0
    /\ \E tag \in DOMAIN by_tag :
         LET res == add_key(M, state[2].key, Some({tag}), <<>>)
         IN  /\ by_tag[tag] = 0
             /\ res.failed = "none"
             /\ res.m.by_tag[tag] = 1
             /\ res.m.state = state
             /\ res.m.mem_size = mem_size

\* the records passed to process_records one call per record
RECURSIVE OneAtATime(_, _, _, _)
OneAtATime(m, records, ts, partial_tag) ==
    IF records = <<>>
    THEN [m |-> m, records |-> <<>>, failed |-> "none"]
    ELSE LET one == process_records(m, <<Head(records)>>, ts, partial_tag)
         IN  IF one.failed # "none"
             THEN [m |-> one.m, records |-> one.records, failed |-> one.failed]
             ELSE LET rest == OneAtATime(one.m, Tail(records), ts, partial_tag)
                  IN  [m |-> rest.m,
                       records |-> one.records \o rest.records,
                       failed |-> rest.failed]

(***************************************************************************)
(* C15.  Batch ordering: one process_records call applies the records in   *)
(* the order of the batch.  It fails iff passing the same records one at   *)
(* a time, in the same order with the same timestamp and tag, fails, and   *)
(* otherwise leaves the same store and retains the same records as the     *)
(* calls one at a time.  A batch [insert r, delete r] that returns leaves  *)
(* r absent from every index when r was absent before.                     *)
(***************************************************************************)
C15_BatchOrdering ==
    Running =>
        \A records \in Batches, ts \in Timestamps, partial_tag \in OptionTag :
            LET batch == process_records(M, records, ts, partial_tag)
                single == OneAtATime(M, records, ts, partial_tag)
            IN  /\ batch.failed = single.failed
                /\ batch.failed = "none" =>
                      /\ batch.m = single.m
                      /\ batch.records = single.records
                /\ \A r \in Rows :
                      /\ records = <<Positive(r), Negative(r)>>
                      /\ batch.failed = "none"
                      /\ ~HeldSomewhere(state, r)
                      => ~HeldSomewhere(batch.m.state, r)

\* a partial store that does not hold r but has r's key filled: the batch
\* [insert r, delete r] retains both records and leaves r absent, the
\* batch [delete r, insert r] retains the insert only and leaves r stored
C15_Witness ==
    /\ Running /\ is_partial(state)
    /\ \E r \in Rows, ts \in Timestamps :
         LET batch == process_records(M, <<Positive(r), Negative(r)>>, ts, None)
             other == process_records(M, <<Negative(r), Positive(r)>>, ts, None)
         IN  /\ ~HeldSomewhere(state, r)
             /\ batch.failed = "none"
             /\ batch.records = <<Positive(r), Negative(r)>>
             /\ ~HeldSomewhere(batch.m.state, r)
             /\ OneAtATime(M, <<Positive(r), Negative(r)>>, ts, None).m = batch.m
             /\ other.records = <<Positive(r)>>
             /\ HeldSomewhere(other.m.state, r)

\* the indices (1-based) that accept an untagged insert of r
Accepting(st, r) == {i \in 1..Len(st) : ~IsHole(st[i], r)}

(***************************************************************************)
(* C16.  An untagged insert offers the row to every index and charges the  *)
(* memory estimate once.  Every index in which the row's key is not a hole *)
(* accepts it and stores one more entry of the one allocation; the other   *)
(* indices are unchanged.  The estimate grows by the row's payload size    *)
(* if at least one index accepted, whatever their number, and is unchanged *)
(* if none did; the reported hit is true iff at least one index accepted.  *)
(***************************************************************************)
C16_UntaggedInsertChargedOnce ==
    Running =>
        \A r \in Rows, ts \in Timestamps :
            LET res == insert(M, r, None, ts)
                id == FreshId(state)
                accepted == Accepting(state, r)
            IN  /\ res.hit = (accepted # {})
                /\ res.m.mem_size
                     = IF accepted # {} THEN mem_size + deep_size_of(r) ELSE mem_size
                /\ res.m.by_tag = by_tag
                /\ Len(res.m.state) = Len(state)
                /\ \A i \in 1..Len(state) :
                      IF i \in accepted
                      THEN /\ Count(res.m.state[i], r) = Count(state[i], r) + 1
                           /\ SingleState_rows(res.m.state[i])
                                 = SingleState_rows(state[i]) + 1
                           /\ Entry(id, r, ts) \in AllEntries(res.m.state[i])
                      ELSE res.m.state[i] = state[i]

\* two partial indices with a row r whose key is filled in both and a row
\* o whose key is a hole in both: inserting r stores it in both indices and
\* grows the estimate by one payload, inserting o stores and charges nothing
C16_Witness ==
    /\ Running /\ Len(state) = 2
    /\ \E r, o \in Rows, ts \in Timestamps :
         LET res == insert(M, r, None, ts)
             none == insert(M, o, None, ts)
         IN  /\ Accepting(state, r) = {1, 2}
             /\ res.hit /\ ~res.over
             /\ \A i \in 1..2 : Count(res.m.state[i], r) = Count(state[i], r) + 1
             /\ res.m.mem_size = mem_size + deep_size_of(r)
             /\ Accepting(state, o) = {}
             /\ ~none.hit
             /\ none.m = M

\* the batches of negative records only
NegativeBatches == {b \in Batches : \A i \in 1..Len(b) : ~b[i].positive}

(***************************************************************************)
(* C17.  The memory estimate is changed only by insert (it grows),         *)
(* mark_hole and the evictions (it shrinks) and clear (it becomes zero).   *)
(* add_key, also when it backfills a new fully materialized index, remove, *)
(* a batch of negative records and mark_filled leave it as it was, so a    *)
(* batch [insert r, delete r] leaves the estimate where the insert alone   *)
(* leaves it.  (A lookup takes the store by shared reference and returns   *)
(* no store.)                                                              *)
(***************************************************************************)
C17_EstimateFrame ==
    Running =>
        /\ \A columns \in KeyColumns, partial \in OptionTags :
              \A order \in BackfillOrders(M, columns, partial) :
                 LET res == add_key(M, columns, partial, order)
                 IN  res.failed = "none" => res.m.mem_size = mem_size
        /\ \A r \in Rows, ts \in Timestamps :
              remove(M, r, ts).m.mem_size = mem_size
        /\ \A records \in NegativeBatches, ts \in Timestamps, partial_tag \in OptionTag :
              process_records(M, records, ts, partial_tag).m.mem_size = mem_size
        /\ \A key \in Keys, tag \in Tags :
              /\ mark_filled(M, key, tag).m.mem_size = mem_size
              /\ mark_hole(M, key, tag).m.mem_size <= mem_size
              /\ evict_keys(M, tag, {key}).m.mem_size <= mem_size
        /\ \A count \in 0..MaxEvict, index \in Positions(state) :
              \A ks \in RandomKeys(M, count, index) :
                 evict_random_keys(M, count, index, ks).m.mem_size <= mem_size
        /\ clear(M).mem_size = 0
        /\ \A r \in Rows, ts \in Timestamps, partial_tag \in OptionTag :
              LET ins == process_records(M, <<Positive(r)>>, ts, partial_tag)
                  both == process_records(M, <<Positive(r), Negative(r)>>, ts, partial_tag)
              IN  /\ insert(M, r, partial_tag, ts).m.mem_size >= mem_size
                  /\ both.failed = "none" =>
                        /\ ins.failed = "none"
                        /\ both.m.mem_size = ins.m.mem_size

\* one fully materialized index holding two rows under one key: remove
\* takes a row out and add_key backfills a second index from it, both with
\* the estimate unchanged, and after the removal inserting then deleting
\* a row leaves the estimate above its value before the insert
C17_Witness ==
    /\ Running /\ Len(state) = 1 /\ ~is_partial(state)
    /\ mem_size > 0
    /\ \E r, o \in Rows, ts \in Timestamps, columns \in KeyColumns :
         \E order \in BackfillOrders(M, columns, None) :
            LET del == remove(M, r, ts)
                res == add_key(M, columns, None, order)
                both == process_records(del.m, <<Positive(o), Negative(o)>>, ts, None)
            IN  /\ del.hit
                /\ rows(del.m.state) = rows(state) - 1
                /\ del.m.mem_size = mem_size
                /\ res.failed = "none"
                /\ rows(res.m.state) > rows(state)
                /\ res.m.mem_size = mem_size
                /\ both.failed = "none" /\ ~both.over
                /\ Counts(both.m.state, o) = Counts(del.m.state, o)
                /\ both.m.mem_size = mem_size + deep_size_of(o)

(***************************************************************************)
(* C18.  evict_random_keys(count) on a store with at least one index       *)
(* touches one index: whichever index and keys are drawn, at most count    *)
(* keys are evicted, all of them from the drawn index; every other index,  *)
(* the index list (keys() and the partial flags) and the tag map are       *)
(* unchanged, and the key-column set returned is that of the index the     *)
(* returned keys were evicted from.                                        *)
(***************************************************************************)
C18_RandomEvictionOneIndex ==
    Running /\ is_useful(state) =>
        \A count \in 0..MaxEvict, index \in Positions(state) :
            \A ks \in RandomKeys(M, count, index) :
               LET res == evict_random_keys(M, count, index, ks)
                   i == index + 1
               IN  /\ Cardinality(res.keys) <= count
                   /\ res.keys \subseteq DOMAIN state[i].map
                   /\ res.key = state[i].key
                   /\ DOMAIN res.m.state[i].map = (DOMAIN state[i].map) \ res.keys
                   /\ \A k \in DOMAIN res.m.state[i].map :
                         res.m.state[i].map[k] = state[i].map[k]
                   /\ \A j \in 1..Len(state) : j # i => res.m.state[j] = state[j]
                   /\ keys(res.m.state) = keys(state)
                   /\ \A j \in 1..Len(state) : res.m.state[j].partial = state[j].partial
                   /\ res.m.by_tag = by_tag
                   /\ res.bytes = FreedBytes(state, i, res.keys)

\* two indices that hold rows, with a registered tag: a draw of the second
\* index evicts one of its keys, reports the second index's key columns
\* and leaves the first index as it was
C18_Witness ==
    /\ Running /\ Len(state) = 2
    /\ DOMAIN by_tag # {}
    /\ \A i \in 1..2 : SingleState_rows(state[i]) > 0
    /\ \E ks \in RandomKeys(M, 1, 1) :
         LET res == evict_random_keys(M, 1, 1, ks)
         IN  /\ Cardinality(ks) = 1
             /\ rows(res.m.state) < rows(state)
             /\ res.key = state[2].key
             /\ res.key # state[1].key
             /\ res.m.state[1] = state[1]
             /\ res.m.state[2] # state[2]

\* the positions of the fully materialized indices of st
FullPositions(st) == {i \in Positions(st) : ~At(st, i).partial}

\* the column lists, of one or two columns, that no index of st is keyed on
NewColumns(st) ==
    {columns \in KeyColumns \cup ColumnPairs : ~state_for(st, columns).some}

(***************************************************************************)
(* C19 as stated.  Mixed stores are legal and a new fully materialized     *)
(* index is backfilled from an existing one: whenever the store holds a    *)
(* fully materialized index, at whatever position, add_key(columns, None)  *)
(* on a column set that is not yet keyed succeeds and the new index holds  *)
(* the rows of a fully materialized index of the store.  The code copies   *)
(* every version of a key of old[0] but the first (the loop at line 61     *)
(* starts at 1), so the new index lacks rows that the source holds.        *)
(***************************************************************************)
C19_BackfillFromAnyFullIndex ==
    Running /\ FullPositions(state) # {} =>
        \A columns \in NewColumns(state) :
            \A order \in BackfillOrders(M, columns, None) :
               LET res == add_key(M, columns, None, order)
                   new == res.m.state[Len(state) + 1]
               IN  /\ res.failed = "none"
                   /\ Len(res.m.state) = Len(state) + 1
                   /\ new.key = columns /\ ~new.partial
                   /\ \E i \in FullPositions(state) :
                         \A r \in Rows : Count(new, r) = Count(At(state, i), r)

(***************************************************************************)
(* C20.  In every state reached without a fatal failure, a store that      *)
(* holds a fully materialized index has one at position 0: add_key of a    *)
(* new column list with no tags fails when the index at position 0 is      *)
(* partial, also when that index is empty.  Consequently cloned_records,   *)
(* which reads position 0 and requires it to be fully materialized,        *)
(* returns the rows of position 0 on every store that has an index and is  *)
(* not entirely partial.                                                   *)
(***************************************************************************)
C20_FirstIndexFull ==
    Running =>
        /\ FullPositions(state) # {} => 0 \in FullPositions(state)
        /\ Len(state) > 0 /\ state[1].partial =>
              \A columns \in NewColumns(state) :
                 add_key(M, columns, None, <<>>).failed # "none"
        /\ FullPositions(state) # {} =>
              LET res == cloned_records(M)
              IN  /\ res.failed = "none"
                  /\ \A r \in Rows :
                        IF Holds(state[1], r)
                        THEN r \in DOMAIN res.records
                             /\ res.records[r] = Count(state[1], r)
                        ELSE r \notin DOMAIN res.records

\* a mixed store, a fully materialized index that holds rows followed by
\* a partial index: cloned_records returns the rows of the first index and
\* a further fully materialized index can be added
C20_Witness ==
    /\ Running /\ Len(state) = 2
    /\ ~state[1].partial /\ state[2].partial
    /\ SingleState_rows(state[1]) > 0
    /\ cloned_records(M).failed = "none"
    /\ DOMAIN cloned_records(M).records # {}
    /\ \A columns \in NewColumns(state) :
          add_key(M, columns, None, <<>>).failed = "none"
====
